---- MODULE Spec2Model ----
(***************************************************************************)
(* Model of the table extraction of node-scrape: Scrape.table (the class   *)
(* that imports ./utils.js) and the three helpers of src/utils.js,         *)
(* extractColumnMap, generateColumnLayout and extractTableData.            *)
(*                                                                         *)
(* A text is a sequence of one-character strings.  A document holds at     *)
(* most one table; a table has an optional thead and an optional tbody,    *)
(* each a sequence of rows, a row a sequence of cells.  A cell is          *)
(* [text, colspan, rowspan, src]; src is the src attribute of a descendant *)
(* img (empty when there is none).  Span attributes are well-formed        *)
(* positive integers.  Texts are over an alphabet without the double       *)
(* quote, the backslash, the dollar sign and control characters, so the    *)
(* JSON text of a template keeps its string boundaries under substitution  *)
(* and a template is modelled by its tree of keys and leaves, searched in  *)
(* serialisation order.                                                    *)
(***************************************************************************)
EXTENDS Integers, Sequences, FiniteSets, TLC

VARIABLES doc, pre, n, last

vars == <<doc, pre, n, last>>

----------------------------------------------------------------------------
(* Bounds of the model *)

MaxCalls == 2
MaxSkip == 2
MaxHeaderCells == 3
MaxSubLabels == 2
MaxPlainRows == 2

\* the span attributes the cells of the generated tables carry
Colspans == {1, 2}
HeaderRowspans == {1, 2}
BodyRowspans == {1, 2, 3}

----------------------------------------------------------------------------
(* Texts *)

Lowers == <<"a","b","c","d","e","f","g","h","i","j","k","l","m",
            "n","o","p","q","r","s","t","u","v","w","x","y","z">>

Uppers == <<"A","B","C","D","E","F","G","H","I","J","K","L","M",
            "N","O","P","Q","R","S","T","U","V","W","X","Y","Z">>

DigitChars == <<"0","1","2","3","4","5","6","7","8","9">>

toLowerCaseChar(c) ==
  IF \E i \in 1..Len(Uppers) : Uppers[i] = c
  THEN Lowers[CHOOSE i \in 1..Len(Uppers) : Uppers[i] = c]
  ELSE c

toUpperCaseChar(c) ==
  IF \E i \in 1..Len(Lowers) : Lowers[i] = c
  THEN Uppers[CHOOSE i \in 1..Len(Lowers) : Lowers[i] = c]
  ELSE c

toLowerCase(s) == [i \in 1..Len(s) |-> toLowerCaseChar(s[i])]

Min(a, b) == IF a < b THEN a ELSE b

\* String.prototype.trim over an alphabet whose only white space is " ".
RECURSIVE trimStart(_)
trimStart(s) ==
  IF s # <<>> /\ Head(s) = " " THEN trimStart(Tail(s)) ELSE s

RECURSIVE trimEnd(_)
trimEnd(s) ==
  IF s # <<>> /\ s[Len(s)] = " " THEN trimEnd(SubSeq(s, 1, Len(s) - 1)) ELSE s

trim(s) == trimEnd(trimStart(s))

\* input.split(" "): the words between single spaces (empty words included).
RECURSIVE split(_)
split(s) ==
  IF \E i \in 1..Len(s) : s[i] = " "
  THEN LET i == CHOOSE j \in 1..Len(s) :
                  s[j] = " " /\ \A k \in 1..(j - 1) : s[k] # " "
       IN <<SubSeq(s, 1, i - 1)>> \o split(SubSeq(s, i + 1, Len(s)))
  ELSE <<s>>

capitalize(w) ==
  IF w = <<>> THEN <<>>
  ELSE <<toUpperCaseChar(w[1])>> \o toLowerCase(Tail(w))

RECURSIVE camelTail(_, _)
camelTail(words, i) ==
  IF i > Len(words) THEN <<>>
  ELSE capitalize(words[i]) \o camelTail(words, i + 1)

toCamelCase(input) ==
  LET words == split(input)
  IN toLowerCase(words[1]) \o camelTail(words, 2)

\* .replace(/\[.*?\]/g, ""): every "[" up to the first "]" after it goes.
RECURSIVE removeBracketed(_)
removeBracketed(s) ==
  IF s = <<>> THEN <<>>
  ELSE IF Head(s) = "[" /\ \E j \in 2..Len(s) : s[j] = "]"
       THEN LET j == CHOOSE k \in 2..Len(s) :
                       s[k] = "]" /\ \A m \in 2..(k - 1) : s[m] # "]"
            IN removeBracketed(SubSeq(s, j + 1, Len(s)))
       ELSE <<Head(s)>> \o removeBracketed(Tail(s))

\* .replace(/['"]/g, "")
removeQuotes(s) == SelectSeq(s, LAMBDA c : c \notin {"'", "\""})

\* .replace("  ", "-"): a string pattern replaces the first occurrence only.
replaceDoubleSpace(s) ==
  IF \E i \in 1..(Len(s) - 1) : s[i] = " " /\ s[i + 1] = " "
  THEN LET i == CHOOSE j \in 1..(Len(s) - 1) :
                  /\ s[j] = " " /\ s[j + 1] = " "
                  /\ \A k \in 1..(j - 1) : ~(s[k] = " " /\ s[k + 1] = " ")
       IN SubSeq(s, 1, i - 1) \o <<"-">> \o SubSeq(s, i + 2, Len(s))
  ELSE s

cleanText(input) == replaceDoubleSpace(removeQuotes(removeBracketed(input)))

\* The decimal text of a natural number (template literal `${i}`).
RECURSIVE numberText(_)
numberText(k) ==
  IF k < 10 THEN <<DigitChars[k + 1]>>
  ELSE numberText(k \div 10) \o <<DigitChars[(k % 10) + 1]>>

----------------------------------------------------------------------------
(* Objects: a JavaScript object is the sequence of its [key, node] entries *)
(* in property order; a node is a string leaf or an object.                *)

Placeholder == <<"#", "#", "#">>

Leaf(s) == [kind |-> "leaf", text |-> s, kids |-> <<>>]

Obj(entries) == [kind |-> "obj", text |-> <<>>, kids |-> entries]

isDigit(c) == \E i \in 1..Len(DigitChars) : DigitChars[i] = c

digitValue(c) == (CHOOSE i \in 1..Len(DigitChars) : DigitChars[i] = c) - 1

\* A canonical array index ("0", "7", "2020"): such keys are enumerated
\* first, in ascending numeric order, whatever their insertion order.
isArrayIndex(key) ==
  /\ key # <<>>
  /\ \A i \in 1..Len(key) : isDigit(key[i])
  /\ (Len(key) = 1 \/ key[1] # "0")

RECURSIVE indexValue(_)
indexValue(key) ==
  IF key = <<>> THEN 0
  ELSE 10 * indexValue(SubSeq(key, 1, Len(key) - 1)) + digitValue(key[Len(key)])

hasKey(entries, key) == \E i \in 1..Len(entries) : entries[i].key = key

\* obj[key] = node, with the property order of an ordinary object.
setProperty(entries, key, node) ==
  IF hasKey(entries, key)
  THEN [i \in 1..Len(entries) |->
          IF entries[i].key = key THEN [key |-> key, node |-> node]
          ELSE entries[i]]
  ELSE IF isArrayIndex(key)
       THEN LET before == SelectSeq(entries, LAMBDA e :
                            isArrayIndex(e.key)
                            /\ indexValue(e.key) < indexValue(key))
                after == SelectSeq(entries, LAMBDA e :
                            ~(isArrayIndex(e.key)
                              /\ indexValue(e.key) < indexValue(key)))
            IN before \o <<[key |-> key, node |-> node]>> \o after
       ELSE Append(entries, [key |-> key, node |-> node])

----------------------------------------------------------------------------
(* The document *)

Cell(text, colspan, rowspan) ==
  [text |-> text, colspan |-> colspan, rowspan |-> rowspan, src |-> <<>>]

\* document.createElement("th"): no text, no attributes, no children.
SpacerCell == Cell(<<>>, 1, 1)

Section(present, rows) == [present |-> present, rows |-> rows]

Table(thead, tbody) == [thead |-> thead, tbody |-> tbody]

NoSection == Section(FALSE, <<>>)

RowRef(sec, idx) == [sec |-> sec, idx |-> idx]

rowAt(table, ref) == table[ref.sec].rows[ref.idx]

prependTo(table, ref, cell) ==
  [table EXCEPT ![ref.sec].rows[ref.idx] = <<cell>> \o @]

removeFirstOf(table, ref) ==
  [table EXCEPT ![ref.sec].rows[ref.idx] = Tail(@)]

\* The skip argument: not passed (undefined) or a number.
NoSkip == [given |-> FALSE, count |-> 0]

Skip(k) == [given |-> TRUE, count |-> k]

\* i < skipRows, which is false for every i when skipRows is undefined.
lessThanSkip(i, skipRows) == skipRows.given /\ i < skipRows.count

\* rows.slice(skipRows): slice(undefined) keeps every row.
sliceFrom(rows, skipRows) ==
  IF skipRows.given THEN SubSeq(rows, skipRows.count + 1, Len(rows)) ELSE rows

----------------------------------------------------------------------------
(* extractColumnMap *)

\* _thead: with a thead, its children followed by its tr descendants (the
\* same rows a second time); without one, every tr of the table.
headerRows(table) ==
  IF table.thead.present
  THEN LET k == Len(table.thead.rows)
       IN [i \in 1..(2 * k) |-> RowRef("thead", ((i - 1) % k) + 1)]
  ELSE [i \in 1..Len(table.tbody.rows) |-> RowRef("tbody", i)]

\* for (rowSpanIndex = 1; rowSpanIndex < rowspan; ...) _thead[..].prepend(thEl):
\* one th node, so each prepend moves it out of the row it was put in before;
\* a row index past the end of _thead is undefined and prepend throws.
RECURSIVE prependSpacer(_, _, _, _, _)
prependSpacer(table, refs, trIndex, rowspan, rowSpanIndex) ==
  IF rowSpanIndex >= rowspan THEN [table |-> table, threw |-> FALSE]
  ELSE IF trIndex + rowSpanIndex + 1 > Len(refs)
       THEN [table |-> table, threw |-> TRUE]
       ELSE LET detached == IF rowSpanIndex > 1
                            THEN removeFirstOf(table, refs[trIndex + rowSpanIndex])
                            ELSE table
            IN prependSpacer(
                 prependTo(detached, refs[trIndex + rowSpanIndex + 1], SpacerCell),
                 refs, trIndex, rowspan, rowSpanIndex + 1)

headerLabel(th) == toCamelCase(cleanText(trim(th.text)))

\* The loop over the cells of one header row (a snapshot of its children).
RECURSIVE mapCells(_, _, _, _, _, _, _)
mapCells(table, refs, trIndex, tr, thIndex, totalCols, rows) ==
  IF thIndex > Len(tr)
  THEN [table |-> table, rows |-> rows, threw |-> FALSE]
  ELSE LET th == tr[thIndex]
       IN IF th.text = <<>>
          THEN mapCells(table, refs, trIndex, tr, thIndex + 1, totalCols + 1, rows)
          ELSE LET col == totalCols + th.colspan
                   cell == [row |-> trIndex + 1, col |-> col,
                            value |-> headerLabel(th)]
                   put == IF th.rowspan > 1
                          THEN prependSpacer(table, refs, trIndex, th.rowspan, 1)
                          ELSE [table |-> table, threw |-> FALSE]
               IN IF put.threw
                  THEN [table |-> put.table, rows |-> rows, threw |-> TRUE]
                  ELSE mapCells(put.table, refs, trIndex, tr, thIndex + 1,
                                col, Append(rows, cell))

\* The loop over the header rows, trIndex counted from 0.
RECURSIVE mapRows(_, _, _, _, _)
mapRows(table, refs, trIndex, skipRows, columnMap) ==
  IF ~lessThanSkip(trIndex, skipRows)
  THEN [table |-> table, columnMap |-> columnMap, threw |-> FALSE]
  ELSE LET tr == IF trIndex + 1 <= Len(refs)
                 THEN rowAt(table, refs[trIndex + 1]) ELSE <<>>
           r == mapCells(table, refs, trIndex, tr, 1, 0, <<>>)
       IN IF r.threw
          THEN [table |-> r.table, columnMap |-> columnMap, threw |-> TRUE]
          ELSE mapRows(r.table, refs, trIndex + 1, skipRows,
                       Append(columnMap, r.rows))

\* [table: the table as the call leaves it, columnMap, threw: a TypeError]
extractColumnMap(table, skipRows) ==
  mapRows(table, headerRows(table), 0, skipRows, <<>>)

----------------------------------------------------------------------------
(* generateColumnLayout: the recursion shares columnMap and splices it, so *)
(* each step returns the header built together with the columnMap left.    *)

\* obj[`${columnName}#${i}`] = "###" for i = 0 .. colSpan - 1
RECURSIVE defaultColumns(_, _, _, _)
defaultColumns(columnName, colSpan, i, entries) ==
  IF i >= colSpan THEN entries
  ELSE defaultColumns(columnName, colSpan, i + 1,
         setProperty(entries, columnName \o <<"#">> \o numberText(i),
                     Leaf(Placeholder)))

\* columnMap[rowIndex + 1]?.at(0)?.col !== column.col
nextRowStartsElsewhere(columnMap, rowIndex, column) ==
  ~(/\ rowIndex + 2 <= Len(columnMap)
    /\ columnMap[rowIndex + 2] # <<>>
    /\ columnMap[rowIndex + 2][1].col = column.col)

RECURSIVE layoutOf(_, _, _, _)
RECURSIVE layoutColumns(_, _, _, _, _)

\* columns.forEach((column, columnIndex) => ...), columnIndex counted from 1
layoutColumns(columnMap, rowIndex, columns, columnIndex, header) ==
  IF columnIndex > Len(columns)
  THEN [header |-> Obj(header), columnMap |-> columnMap]
  ELSE LET column == columns[columnIndex]
           previousCol == IF columnIndex # 1 THEN columns[columnIndex - 1].col
                          ELSE column.col
           colspan == column.col - previousCol
       IN IF \/ colspan = 0
             \/ (colspan = 1 /\ nextRowStartsElsewhere(columnMap, rowIndex, column))
          THEN layoutColumns(columnMap, rowIndex, columns, columnIndex + 1,
                             setProperty(header, column.value, Leaf(Placeholder)))
          ELSE LET sub == layoutOf(columnMap, rowIndex + 1, colspan, column.value)
               IN layoutColumns(sub.columnMap, rowIndex, columns, columnIndex + 1,
                                setProperty(header, column.value, sub.header))

\* rowIndex counted from 0, as in the source
layoutOf(columnMap, rowIndex, colSpan, columnName) ==
  IF rowIndex + 1 > Len(columnMap)
  THEN [header |-> Obj(defaultColumns(columnName, colSpan, 0, <<>>)),
        columnMap |-> columnMap]
  ELSE LET row == columnMap[rowIndex + 1]
           taken == Min(colSpan, Len(row))
           columns == IF rowIndex = 0 THEN row ELSE SubSeq(row, 1, taken)
           rest == IF rowIndex = 0 THEN columnMap
                   ELSE [columnMap EXCEPT
                           ![rowIndex + 1] = SubSeq(row, taken + 1, Len(row))]
       IN layoutColumns(rest, rowIndex, columns, 1, <<>>)

generateColumnLayout(columnMap, rowIndex, colSpan, columnName) ==
  layoutOf(columnMap, rowIndex, colSpan, columnName).header

----------------------------------------------------------------------------
(* extractTableData *)

hasMarkerAt(s, i) == i + 2 <= Len(s) /\ SubSeq(s, i, i + 2) = Placeholder

hasMarker(s) == \E i \in 1..Len(s) : hasMarkerAt(s, i)

\* s.replace("###", e) on a string known to hold the marker
replaceMarker(s, e) ==
  LET i == CHOOSE j \in 1..Len(s) :
             hasMarkerAt(s, j) /\ \A k \in 1..(j - 1) : ~hasMarkerAt(s, k)
  IN SubSeq(s, 1, i - 1) \o e \o SubSeq(s, i + 3, Len(s))

\* jsonTemplate.replace("###", e): the first "###" of the serialised
\* template, which reads each entry's key and then its value, in order.
RECURSIVE replaceInNode(_, _)
RECURSIVE replaceInEntries(_, _, _)

replaceInEntries(entries, i, e) ==
  IF i > Len(entries) THEN [entries |-> entries, done |-> FALSE]
  ELSE IF hasMarker(entries[i].key)
       THEN [entries |-> [entries EXCEPT ![i].key = replaceMarker(@, e)],
             done |-> TRUE]
       ELSE LET r == replaceInNode(entries[i].node, e)
            IN IF r.done
               THEN [entries |-> [entries EXCEPT ![i].node = r.node],
                     done |-> TRUE]
               ELSE replaceInEntries(entries, i + 1, e)

replaceInNode(node, e) ==
  IF node.kind = "leaf"
  THEN IF hasMarker(node.text)
       THEN [node |-> Leaf(replaceMarker(node.text, e)), done |-> TRUE]
       ELSE [node |-> node, done |-> FALSE]
  ELSE LET r == replaceInEntries(node.kids, 1, e)
       IN [node |-> Obj(r.entries), done |-> r.done]

\* innerData.forEach((e) => { jsonTemplate = jsonTemplate.replace("###", e) })
RECURSIVE fillTemplate(_, _, _)
fillTemplate(template, innerData, i) ==
  IF i > Len(innerData) THEN template
  ELSE fillTemplate(replaceInNode(template, innerData[i]).node, innerData, i + 1)

\* JSON.parse: objects are rebuilt entry by entry (a repeated key keeps its
\* first place and its last value).
RECURSIVE parseNode(_)
RECURSIVE parseEntries(_, _, _)

parseEntries(entries, i, acc) ==
  IF i > Len(entries) THEN acc
  ELSE parseEntries(entries, i + 1,
                    setProperty(acc, entries[i].key, parseNode(entries[i].node)))

parseNode(node) ==
  IF node.kind = "leaf" THEN node
  ELSE Obj(parseEntries(node.kids, 1, <<>>))

\* cleanText(cell.textContent.trim()), or the img src when that is empty
cellValue(cell) ==
  LET value == cleanText(trim(cell.text))
  IN IF value = <<>> THEN cell.src ELSE value

repeat(value, k) == [i \in 1..k |-> value]

\* cells.forEach: the expanded values of a row and the rowspan cells noted
RECURSIVE expandCells(_, _, _, _, _)
expandCells(cells, tdIndex, trIndex, innerData, existedRow) ==
  IF tdIndex >= Len(cells)
  THEN [innerData |-> innerData, existedRow |-> existedRow]
  ELSE LET cell == cells[tdIndex + 1]
           value == cellValue(cell)
           noted == IF cell.rowspan > 1
                    THEN Append(existedRow,
                                [row |-> trIndex, col |-> tdIndex, value |-> value])
                    ELSE existedRow
       IN expandCells(cells, tdIndex + 1, trIndex,
                      innerData \o repeat(value, cell.colspan), noted)

\* innerData.splice(col, 0, value): past the end, the value is appended
spliceIn(innerData, col, value) ==
  LET at == Min(col, Len(innerData))
  IN SubSeq(innerData, 1, at) \o <<value>> \o SubSeq(innerData, at + 1, Len(innerData))

RECURSIVE injectExisted(_, _, _)
injectExisted(innerData, existRow, i) ==
  IF i > Len(existRow) THEN innerData
  ELSE injectExisted(spliceIn(innerData, existRow[i].col, existRow[i].value),
                     existRow, i + 1)

\* rows.map((row, trIndex) => ...), trIndex counted from 0
RECURSIVE mapDataRows(_, _, _, _, _, _)
mapDataRows(rows, trIndex, columnLayout, existedRow, inner, records) ==
  IF trIndex >= Len(rows) THEN [inner |-> inner, records |-> records]
  ELSE LET x == expandCells(rows[trIndex + 1], 0, trIndex, <<>>, existedRow)
           existRow == SelectSeq(x.existedRow, LAMBDA e : e.row = trIndex - 1)
           innerData == injectExisted(x.innerData, existRow, 1)
           record == parseNode(fillTemplate(columnLayout, innerData, 1))
       IN mapDataRows(rows, trIndex + 1, columnLayout, x.existedRow,
                      Append(inner, innerData), Append(records, record))

\* [inner: each row's innerData as it is substituted, records]
extractTableData(tbody, columnLayout, skipRows) ==
  mapDataRows(sliceFrom(tbody.rows, skipRows), 0, columnLayout, <<>>, <<>>, <<>>)

----------------------------------------------------------------------------
(* Scrape.table *)

NoTableError == "No table found with the given selector"

NoTbodyError == "No tbody found in the table"

PrependTypeError == "TypeError: Cannot read properties of undefined (reading 'prepend')"

Failure(message) ==
  [kind |-> "error", error |-> message, columnMap |-> <<>>,
   columnLayout |-> Obj(<<>>), inner |-> <<>>, records |-> <<>>]

Success(columnMap, columnLayout, data) ==
  [kind |-> "ok", error |-> "", columnMap |-> columnMap,
   columnLayout |-> columnLayout, inner |-> data.inner, records |-> data.records]

\* document.querySelector(selector): the document's table, or null
querySelector(d, selector) == d.hasTable /\ selector = "table"

\* table with the header mapped before the tbody is looked for
tableMappingFirst(d, selector, skip) ==
  IF ~querySelector(d, selector)
  THEN [doc |-> d, out |-> Failure(NoTableError)]
  ELSE LET m == extractColumnMap(d.table, skip)
           after == [d EXCEPT !.table = m.table]
       IN IF m.threw
          THEN [doc |-> after, out |-> Failure(PrependTypeError)]
          ELSE IF ~d.table.tbody.present
               THEN [doc |-> after, out |-> Failure(NoTbodyError)]
               ELSE LET columnLayout == generateColumnLayout(m.columnMap, 0, 0, <<>>)
                    IN [doc |-> after,
                        out |-> Success(m.columnMap, columnLayout,
                                  extractTableData(m.table.tbody, columnLayout, skip))]

\* [doc: the document after the call, out: what the call returned or threw]
table(d, selector, skip) ==
  IF ~querySelector(d, selector)
  THEN [doc |-> d, out |-> Failure(NoTableError)]
  ELSE IF ~d.table.tbody.present
       THEN [doc |-> d, out |-> Failure(NoTbodyError)]
       ELSE LET m == extractColumnMap(d.table, skip)
                after == [d EXCEPT !.table = m.table]
            IN IF m.threw
               THEN [doc |-> after, out |-> Failure(PrependTypeError)]
               ELSE LET columnLayout == generateColumnLayout(m.columnMap, 0, 0, <<>>)
                    IN [doc |-> after,
                        out |-> Success(m.columnMap, columnLayout,
                                  extractTableData(m.table.tbody, columnLayout, skip))]

----------------------------------------------------------------------------
(* The documents a Scrape object is constructed from *)

TopLabels == << <<"N","a","m","e">>, <<"S","a","l","e","s">>,
                <<"T","o","t","a","l">>, <<"N","o","t","e","s">> >>

SubLabels == << <<"J","a","n">>, <<"F","e","b">>, <<"M","a","r">> >>

FlatLabels == << <<"N","a","m","e">>, <<"A","g","e">>, <<"C","i","t","y">> >>

RowLetters == <<"a", "b", "c", "d">>

Selectors == {"table", "#missing"}

Skips == {NoSkip} \cup {Skip(k) : k \in 0..MaxSkip}

Doc(t) == [hasTable |-> TRUE, table |-> t]

NoTableDoc == [hasTable |-> FALSE, table |-> Table(NoSection, NoSection)]

\* a data row of plain cells holding "100", "200", ...
numberRow(width) == [i \in 1..width |-> Cell(numberText(100 * i), 1, 1)]

\* a data row of plain cells holding "b1", "b2", ... for row letter "b"
plainRow(letter, width) ==
  [i \in 1..width |-> Cell(<<letter>> \o numberText(i), 1, 1)]

RECURSIVE width(_)
width(row) == IF row = <<>> THEN 0 ELSE Head(row).colspan + width(Tail(row))

\* header rows whose cells carry any colspan and rowspan
TopRows ==
  UNION {{[i \in 1..k |-> Cell(TopLabels[i], f[i][1], f[i][2])] :
            f \in [1..k -> Colspans \X HeaderRowspans]} :
         k \in 1..MaxHeaderCells}

SubRows == {[i \in 1..k |-> Cell(SubLabels[i], 1, 1)] : k \in 1..MaxSubLabels}

HeaderRowSets == {<<t>> : t \in TopRows} \cup (TopRows \X SubRows)

\* the header rows in a thead or leading the tbody, then one data row as
\* wide as the first header row; or a thead and no tbody at all
HeaderTables(h) ==
  LET data == <<numberRow(width(h[1]))>>
  IN {Table(Section(TRUE, h), Section(TRUE, data)),
      Table(NoSection, Section(TRUE, h \o data)),
      Table(Section(TRUE, h), NoSection)}

HeaderFamily == UNION {HeaderTables(h) : h \in HeaderRowSets}

\* first data rows up to three columns wide, at most one cell of which
\* spans rows
SpanRows ==
  {r \in UNION {{[i \in 1..k |-> Cell(<<"a">> \o numberText(i), f[i][1], f[i][2])] :
                   f \in [1..k -> Colspans \X BodyRowspans]} :
                k \in 1..Len(FlatLabels)} :
     /\ width(r) <= Len(FlatLabels)
     /\ Cardinality({i \in 1..Len(r) : r[i].rowspan > 1}) <= 1}

PlainRowSets ==
  UNION {{[i \in 1..k |-> plainRow(RowLetters[i + 1], w[i])] :
            w \in [1..k -> 1..Len(FlatLabels)]} :
         k \in 0..MaxPlainRows}

flatHeader == [i \in 1..Len(FlatLabels) |-> Cell(FlatLabels[i], 1, 1)]

BodyTables(first, rest) ==
  {Table(Section(TRUE, <<flatHeader>>), Section(TRUE, <<first>> \o rest)),
   Table(NoSection, Section(TRUE, <<flatHeader, first>> \o rest))}

BodyFamily == UNION {BodyTables(r, p) : r \in SpanRows, p \in PlainRowSets}

\* flat two-column tables over header and cell texts that exercise the
\* label and value conversions
HeaderTexts ==
  {<<"N","a","m","e">>, <<"F","i","r","s","t"," ","N","a","m","e">>,
   <<"2","0","2","0">>, <<"A","g","e","[","1","]">>, <<"7">>}

ValueCells ==
  {Cell(<<"A","l","i","c","e">>, 1, 1), Cell(<<" ","3","0"," ">>, 1, 1),
   Cell(<<"N","/","A","[","b","]">>, 1, 1),
   [Cell(<<>>, 1, 1) EXCEPT !.src = <<"p",".","p","n","g">>]}

lastRow == <<Cell(<<"B","o","b">>, 1, 1), Cell(<<"2","5">>, 1, 1)>>

FlatTables(h, v) ==
  LET header == <<Cell(h[1], 1, 1), Cell(h[2], 1, 1)>>
  IN {Table(Section(TRUE, <<header>>), Section(TRUE, <<v, lastRow>>)),
      Table(NoSection, Section(TRUE, <<header, v, lastRow>>))}

FlatFamily ==
  UNION {FlatTables(h, v) : h \in HeaderTexts \X HeaderTexts,
                            v \in ValueCells \X ValueCells}

Docs == {NoTableDoc} \cup {Doc(t) : t \in HeaderFamily \cup BodyFamily \cup FlatFamily}

----------------------------------------------------------------------------
(* The state machine: a Scrape object and the calls of table made on it *)

NoCall == [selector |-> "", skip |-> NoSkip, out |-> Failure("")]

Init ==
  /\ doc \in Docs
  /\ pre = doc
  /\ n = 0
  /\ last = NoCall

\* scraper.table(selector, skip)
TableCall(selector, skip) ==
  /\ n < MaxCalls
  /\ LET r == table(doc, selector, skip)
     IN /\ doc' = r.doc
        /\ last' = [selector |-> selector, skip |-> skip, out |-> r.out]
  /\ pre' = doc
  /\ n' = n + 1

Next == \E selector \in Selectors, skip \in Skips : TableCall(selector, skip)

Spec == Init /\ [][Next]_vars

\* The documents on which every call of table throws: those without a table
\* and those whose table has no tbody.
ErrorDocs == {d \in Docs : ~d.hasTable \/ ~d.table.tbody.present}

ErrorInit ==
  /\ doc \in ErrorDocs
  /\ pre = doc
  /\ n = 0
  /\ last = NoCall

ErrorSpec == ErrorInit /\ [][Next]_vars

----------------------------------------------------------------------------
(* What the claims speak of *)

called == n > 0

matched == called /\ querySelector(pre, last.selector)

returned == called /\ last.out.kind = "ok"

plain(cell) == cell.colspan = 1 /\ cell.rowspan = 1

labelled(row) == \A i \in 1..Len(row) : headerLabel(row[i]) # <<>>

distinctLabels(row) ==
  \A i, j \in 1..Len(row) : headerLabel(row[i]) = headerLabel(row[j]) => i = j

allPlain(rows) ==
  \A r \in 1..Len(rows) : \A i \in 1..Len(rows[r]) : plain(rows[r][i])

prefixWidth(row, j) == width(SubSeq(row, 1, j - 1))

labelsOf(row) == [i \in 1..Len(row) |-> headerLabel(row[i])]

mappedLabels(cells) == [i \in 1..Len(cells) |-> cells[i].value]

\* the leaves of a record or layout in pre-order
RECURSIVE leavesOf(_)
RECURSIVE leavesOfEntries(_, _)

leavesOfEntries(entries, i) ==
  IF i > Len(entries) THEN <<>>
  ELSE leavesOf(entries[i].node) \o leavesOfEntries(entries, i + 1)

leavesOf(node) ==
  IF node.kind = "leaf" THEN <<node.text>> ELSE leavesOfEntries(node.kids, 1)

\* the value of obj[key], for a key the object has
property(node, key) ==
  node.kids[CHOOSE i \in 1..Len(node.kids) : node.kids[i].key = key].node

\* the rows the last call treated as data, as extractTableData read them
retained == sliceFrom(doc.table.tbody.rows, last.skip)

----------------------------------------------------------------------------
(* C4 *)

\* C4: table(selector, skip) throws the "no table found" error when the
\* selector matches nothing and the "no tbody" error when the matched table
\* has no tbody; either way it throws before any header mapping, so it
\* returns no record and leaves the document as it was (no spacer cell).
C4_ErrorsBeforeMapping ==
  called =>
    /\ ~querySelector(pre, last.selector) =>
         last.out = Failure(NoTableError) /\ doc = pre
    /\ (querySelector(pre, last.selector) /\ ~pre.table.tbody.present) =>
         last.out = Failure(NoTbodyError) /\ doc = pre

\* A call with skip = 1 on a table that has no tbody and whose thead opens
\* with a cell of rowspan 2.
C4_Witness ==
  /\ called
  /\ last.out.error = NoTbodyError
  /\ last.skip = Skip(1)
  /\ pre.table.thead.present
  /\ pre.table.thead.rows[1][1].rowspan = 2
  /\ doc = pre

----------------------------------------------------------------------------
(* C1 *)

\* A flat table: one header row of plain cells with distinct, non-empty
\* labels (in the thead, or leading the tbody and named by skip = 1), and
\* data rows of plain cells, one cell per header cell.
flatHeader1 ==
  IF pre.table.thead.present THEN pre.table.thead.rows[1]
  ELSE pre.table.tbody.rows[1]

flatData ==
  IF pre.table.thead.present THEN pre.table.tbody.rows
  ELSE Tail(pre.table.tbody.rows)

flatCall ==
  /\ matched
  /\ pre.table.tbody.present
  /\ \/ /\ pre.table.thead.present
        /\ Len(pre.table.thead.rows) = 1
        /\ last.skip \in {NoSkip, Skip(1)}
     \/ /\ ~pre.table.thead.present
        /\ Len(pre.table.tbody.rows) >= 1
        /\ last.skip = Skip(1)
  /\ allPlain(pre.table.thead.rows)
  /\ allPlain(pre.table.tbody.rows)
  /\ labelled(flatHeader1)
  /\ distinctLabels(flatHeader1)
  /\ \A r \in 1..Len(flatData) : Len(flatData[r]) = Len(flatHeader1)

flatRecord(header, row) ==
  Obj([k \in 1..Len(header) |->
         [key |-> headerLabel(header[k]), node |-> Leaf(cellValue(row[k]))]])

\* C1: on a flat table, table returns one Record per data row, in document
\* order, each mapping the normalized header labels, in header order, to the
\* values of the row's cells, the k-th label to the k-th cell.
C1_FlatTableRecords ==
  flatCall =>
    /\ last.out.kind = "ok"
    /\ last.out.records =
         [r \in 1..Len(flatData) |-> flatRecord(flatHeader1, flatData[r])]

----------------------------------------------------------------------------
(* C7 *)

\* C7: with a thead, the header rows mapped are the rows of the thead, each
\* once, however many there are and whatever skip was passed; without one,
\* they are the first skip rows of the table.
C7_HeaderRowsFromThead ==
  returned =>
    IF pre.table.thead.present
    THEN /\ Len(last.out.columnMap) = Len(pre.table.thead.rows)
         /\ \A r \in 1..Len(last.out.columnMap) :
              mappedLabels(last.out.columnMap[r]) =
                labelsOf(SelectSeq(pre.table.thead.rows[r],
                                   LAMBDA c : c.text # <<>>))
    ELSE /\ last.skip.given => Len(last.out.columnMap) = last.skip.count
         /\ \A r \in 1..Min(Len(last.out.columnMap), Len(pre.table.tbody.rows)) :
              mappedLabels(last.out.columnMap[r]) =
                labelsOf(SelectSeq(pre.table.tbody.rows[r],
                                   LAMBDA c : c.text # <<>>))

----------------------------------------------------------------------------
(* C2 *)

\* A two-row header leading the tbody (skip = 2): the top row has one cell
\* of colspan N >= 2 at place p and otherwise cells of rowspan 2; the row
\* beneath has N plain labelled cells; every data row has one plain cell
\* per leaf column.
spanningPlace(top) == CHOOSE p \in 1..Len(top) : top[p].colspan >= 2

nestedHeaderCall ==
  /\ returned
  /\ ~pre.table.thead.present
  /\ last.skip = Skip(2)
  /\ Len(pre.table.tbody.rows) >= 3
  /\ LET top == pre.table.tbody.rows[1]
         sub == pre.table.tbody.rows[2]
         data == SubSeq(pre.table.tbody.rows, 3, Len(pre.table.tbody.rows))
     IN /\ Cardinality({p \in 1..Len(top) : top[p].colspan >= 2}) = 1
        /\ \A i \in 1..Len(top) :
             IF top[i].colspan >= 2 THEN top[i].rowspan = 1
             ELSE top[i].rowspan = 2
        /\ Len(sub) = top[spanningPlace(top)].colspan
        /\ allPlain(<<sub>>) /\ allPlain(data)
        /\ labelled(top) /\ labelled(sub)
        /\ distinctLabels(top) /\ distinctLabels(sub)
        /\ \A r \in 1..Len(data) : Len(data[r]) = width(top)

nestedRecord(top, sub, row) ==
  LET p == spanningPlace(top)
  IN Obj([i \in 1..Len(top) |->
            [key |-> headerLabel(top[i]),
             node |->
               IF i < p THEN Leaf(cellValue(row[i]))
               ELSE IF i > p THEN Leaf(cellValue(row[i + Len(sub) - 1]))
               ELSE Obj([j \in 1..Len(sub) |->
                           [key |-> headerLabel(sub[j]),
                            node |-> Leaf(cellValue(row[p + j - 1]))]])]])

\* C2: a top cell of colspan N above N labelled cells nests the N sub-labels
\* under its label and each body row fills them left to right, wherever the
\* spanning cell stands in its row (Sales over Jan, Feb and the row 100, 200
\* give { sales: { jan: "100", feb: "200" } }).
C2_NestedUnderSpanningCell ==
  nestedHeaderCall =>
    last.out.records =
      [r \in 1..(Len(pre.table.tbody.rows) - 2) |->
         nestedRecord(pre.table.tbody.rows[1], pre.table.tbody.rows[2],
                      pre.table.tbody.rows[r + 2])]

----------------------------------------------------------------------------
(* C6 *)

\* One header row of labelled cells without rowspan, leading the tbody
\* (skip = 1) or alone in the thead (skip = 1).
singleHeaderCall ==
  /\ returned
  /\ last.skip = Skip(1)
  /\ IF pre.table.thead.present THEN Len(pre.table.thead.rows) = 1
     ELSE Len(pre.table.tbody.rows) >= 1
  /\ \A i \in 1..Len(flatHeader1) :
       flatHeader1[i].rowspan = 1 /\ flatHeader1[i].text # <<>>
  /\ labelled(flatHeader1)
  /\ distinctLabels(flatHeader1)

defaultKeys(label, count) == [i \in 1..count |-> label \o <<"#">> \o numberText(i - 1)]

\* C6: a header cell of colspan N with no header row beneath it has exactly
\* N placeholders at its label in the layout, keyed label#0 .. label#(N-1)
\* when they are under it, for every N >= 1 and every place in the row.
C6_PlaceholdersPerColspan ==
  singleHeaderCall =>
    \A i \in 1..Len(flatHeader1) :
      LET label == headerLabel(flatHeader1[i])
          count == flatHeader1[i].colspan
      IN /\ hasKey(last.out.columnLayout.kids, label)
         /\ LET node == property(last.out.columnLayout, label)
            IN /\ leavesOf(node) = [k \in 1..count |-> Placeholder]
               /\ node.kind = "obj" =>
                    [k \in 1..Len(node.kids) |-> node.kids[k].key]
                      = defaultKeys(label, count)

----------------------------------------------------------------------------
(* C5 *)

\* Two header rows of labelled cells, named by skip = 2 (the two rows of the
\* thead, or the first two rows of the tbody); the cells of the second row
\* are plain.
twoRowHeader ==
  IF pre.table.thead.present THEN pre.table.thead.rows
  ELSE SubSeq(pre.table.tbody.rows, 1, 2)

twoRowHeaderCall ==
  /\ returned
  /\ last.skip = Skip(2)
  /\ IF pre.table.thead.present THEN Len(pre.table.thead.rows) = 2
     ELSE Len(pre.table.tbody.rows) >= 2
  /\ \A r \in 1..2 : \A i \in 1..Len(twoRowHeader[r]) :
       twoRowHeader[r][i].text # <<>>
  /\ labelled(twoRowHeader[1]) /\ labelled(twoRowHeader[2])
  /\ \A i \in 1..Len(twoRowHeader[1]) : twoRowHeader[1][i].rowspan <= 2
  /\ allPlain(<<twoRowHeader[2]>>)

\* the grid columns of the second row that a cell of the first row reaches
\* down into
coveredBelow(top) ==
  UNION {(prefixWidth(top, i) + 1)..(prefixWidth(top, i) + top[i].colspan) :
           i \in {k \in 1..Len(top) : top[k].rowspan = 2}}

\* the grid column of the j-th plain cell of the second row: the j-th
\* column that is free
RECURSIVE freeColumn(_, _, _)
freeColumn(covered, j, from) ==
  IF from \in covered THEN freeColumn(covered, j, from + 1)
  ELSE IF j = 1 THEN from
       ELSE freeColumn(covered, j - 1, from + 1)

\* C5: a header cell of rowspan 2 shifts no column index in the row beneath
\* it: every HeaderCell of that row gets its column of the visual grid,
\* wherever the spanning cells stand and whatever their colspan and number.
C5_ColumnsBeneathRowspan ==
  twoRowHeaderCall =>
    /\ Len(last.out.columnMap) = 2
    /\ Len(last.out.columnMap[2]) = Len(twoRowHeader[2])
    /\ \A j \in 1..Len(twoRowHeader[2]) :
         last.out.columnMap[2][j].col =
           freeColumn(coveredBelow(twoRowHeader[1]), j, 1)

----------------------------------------------------------------------------
(* C3, C8 *)

\* The last call returned and left the document as it was (no header cell it
\* mapped spans rows); of the data rows it read, one cell spans rows, the
\* cell at place j of row i, which is one column wide; the layout has one
\* placeholder per column of that row and the rows the cell reaches into are
\* one column short of it.
spanCells(rows) ==
  {c \in (1..Len(rows)) \X (1..MaxHeaderCells) :
     c[2] <= Len(rows[c[1]]) /\ rows[c[1]][c[2]].rowspan > 1}

oneBodySpan(i, j) ==
  /\ returned
  /\ doc = pre
  /\ spanCells(retained) = {<<i, j>>}
  /\ retained[i][j].colspan = 1
  /\ Len(leavesOf(last.out.columnLayout)) = width(retained[i])
  /\ \A r \in (i + 1)..Len(retained) :
       r < i + retained[i][j].rowspan => width(retained[r]) + 1 = width(retained[i])

noColspan(rows) ==
  \A r \in 1..Len(rows) : \A c \in 1..Len(rows[r]) : rows[r][c].colspan = 1

\* C3: the value of a body cell of rowspan 2 is in its own row and in the
\* row after it at the expanded column the cell has in its own row, whatever
\* the colspans of the cells before it.
C3_CarriedAtExpandedColumn ==
  \A i \in 1..(MaxPlainRows + 1), j \in 1..MaxHeaderCells :
    (oneBodySpan(i, j) /\ retained[i][j].rowspan = 2 /\ i + 1 <= Len(retained)) =>
      LET at == prefixWidth(retained[i], j) + 1
          value == cellValue(retained[i][j])
      IN /\ leavesOf(last.out.records[i])[at] = value
         /\ leavesOf(last.out.records[i + 1])[at] = value

\* C8: the value of a body cell of rowspan k in row i is at the cell's
\* column in each of the rows i+1 .. i+k-1, and in no row after them.
C8_CarriedThroughRowspan ==
  \A i \in 1..(MaxPlainRows + 1), j \in 1..MaxHeaderCells :
    (oneBodySpan(i, j) /\ noColspan(retained)) =>
      LET k == retained[i][j].rowspan
          value == cellValue(retained[i][j])
      IN \A r \in (i + 1)..Len(retained) :
           IF r <= i + k - 1
           THEN /\ Len(last.out.inner[r]) = Len(retained[i])
                /\ last.out.inner[r][j] = value
           ELSE last.out.inner[r] = [c \in 1..Len(retained[r]) |->
                                       cellValue(retained[r][c])]

----------------------------------------------------------------------------
(* C9 *)

padded(values, count) ==
  [p \in 1..count |-> IF p <= Len(values) THEN values[p] ELSE <<>>]

\* C9: a row whose expanded values are fewer or more than the placeholders
\* of the layout still gives a Record: the placeholders left over hold the
\* empty string (none holds "###") and the values left over are dropped.
C9_MismatchDegrades ==
  returned =>
    \A r \in 1..Len(last.out.records) :
      Len(last.out.inner[r]) # Len(leavesOf(last.out.columnLayout)) =>
        leavesOf(last.out.records[r]) =
          padded(last.out.inner[r], Len(leavesOf(last.out.columnLayout)))

----------------------------------------------------------------------------
(* C10 *)

\* C10: two calls of table in a row with the same arguments return equal
\* Record sequences, also when header cells span rows.
C10_RepeatedCallSameRecords ==
  [][(called /\ last.out.kind = "ok" /\ n' = n + 1
        /\ last'.selector = last.selector /\ last'.skip = last.skip) =>
       (last'.out.kind = "ok" /\ last'.out.records = last.out.records)]_vars

====
